---- MODULE Spec2Model ----
(***************************************************************************)
(* ATmega8A configuration and program-memory loader of mcusim              *)
(* (src/avr/simm8a.c): m8a_init, set_fuse_bytes, is_ckopt_programmed,      *)
(* m8a_set_progmem, m8a_load_progmem and m8a_set_datamem.                  *)
(*                                                                         *)
(* Three specifications share the variables:                               *)
(*   Spec      any sequence of the four public calls on one descriptor;    *)
(*   SpecFuse  set_fuse_bytes applied to every (high, low) byte pair;      *)
(*   SpecLoad  one m8a_load_progmem call on every bounded HEX stream,      *)
(*             with an optional change of one memory byte between the      *)
(*             ingest pass and the verify pass.                            *)
(***************************************************************************)
EXTENDS Integers, Sequences, FiniteSets, TLC

VARIABLES
    mcu,        \* struct avr: the descriptor
    mem,        \* first MemBytes bytes of the buffer behind mcu.prog_mem
    progWords,  \* size, in 16-bit words, of the buffer behind mcu.prog_mem
    op,         \* the call that produced this state ("none" initially)
    arg,        \* the arguments of that call
    ret,        \* its return value
    err,        \* the failure its diagnostic message reports
    pre,        \* mcu, mem and progWords as they were when the call began
    out,        \* m8a_load_progmem: what the two passes did
    ub,         \* the call ran into undefined behaviour
    calls       \* number of calls made so far

vars == <<mcu, mem, progWords, op, arg, ret, err, pre, out, ub, calls>>

----------------------------------------------------------------------------
(* Bounds of the model *)

\* Longest HEX stream, in lines.
MaxRecs == 2
\* Longest call sequence explored by Spec.
MaxCalls == 4

\* Record addresses and payload lengths of the streams explored.
RecAddrs == 0..2
DataLens == 0..2
\* Payload byte values: a payload of length n is n copies of one value.
DataVals == {1, 255}

Max(S) == CHOOSE x \in S : \A y \in S : y <= x

\* The window of program memory the model keeps: every byte a record of
\* the explored streams can address.
MemBytes == 2 * (Max(RecAddrs) \div 2) + Max(DataLens)
MemRange == 0 .. (MemBytes - 1)

----------------------------------------------------------------------------
(* Fixed-width values *)

\* uint32_t as <<high half, low half>>, both 16 bits wide.
U32(n) == <<n \div 65536, n % 65536>>
UINT32_MAX == <<65535, 65535>>

\* FLASHSTART, FLASHEND of the ATmega8A, in bytes: the boot sector and the
\* application sector together are the 4096 words 0x000-0xFFF.
FLASHSTART == 0
FLASHEND == 8191

----------------------------------------------------------------------------
(* set_fuse_bytes *)

is_ckopt_programmed(ckopt_f) == IF ckopt_f = 0 THEN -1 ELSE 0

bldr_f_lowbits(high) == high % 4

\* bldr_f = (high >> 1) & 0x03
bldr_f(high) == (high \div 2) % 4

\* ckopt_f = (high >> 4) & 0x01
ckopt_f(high) == (high \div 16) % 2

\* cksel_f = low & 0x0F
cksel_f(low) == low % 16

\* The switch over bldr_f.
boot_loader_of(b) ==
    CASE b = 1 -> [start |-> 3584, end |-> 4095, size |-> 512]
      [] b = 2 -> [start |-> 3840, end |-> 4095, size |-> 256]
      [] b = 3 -> [start |-> 3968, end |-> 4095, size |-> 128]
      [] OTHER -> [start |-> 3072, end |-> 4095, size |-> 1024]

freq_of_shifted(c) ==
    CASE c = 1 -> 2000
      [] c = 2 -> 4000
      [] c = 3 -> 8000
      [] OTHER -> 1000

\* The frequency of each internal-oscillator case of the switch over cksel_f.
freq_of(c) ==
    CASE c = 2 -> 2000
      [] c = 3 -> 4000
      [] c = 4 -> 8000
      [] OTHER -> 1000

\* The whole function: the descriptor it leaves and the value it returns.
set_fuse_bytes(m, high, low) ==
    LET m1 == [m EXCEPT !.fuse = <<low, high>>,
                        !.boot_loader = boot_loader_of(bldr_f(high))]
    IN  IF cksel_f(low) = 0
        THEN [mcu |-> [m1 EXCEPT !.clk_source = "AVR_EXT_CLK",
                                 !.freq = UINT32_MAX],
              ret |-> 0]
        ELSE IF is_ckopt_programmed(ckopt_f(high)) # 0
             THEN [mcu |-> m1, ret |-> -1]
             ELSE [mcu |-> [m1 EXCEPT !.clk_source = "AVR_INT_CLK",
                                      !.freq = U32(freq_of(cksel_f(low)))],
                   ret |-> 0]

----------------------------------------------------------------------------
(* The descriptor *)

\* The fields m8a_init takes from the header: everything but the flash
\* bounds is kept as one flag, hdr, since only their being set matters.
m8a_layout(m) ==
    [m EXCEPT !.name = "atmega8a", !.hdr = TRUE,
              !.flashstart = FLASHSTART, !.flashend = FLASHEND]

m8a_init_keep_lockbits(m) == set_fuse_bytes(m8a_layout(m), 217, 225)

\* m8a_init on a present descriptor: the layout, the lock bits, then
\* set_fuse_bytes(mcu, 0xD9, 0xE1), whose failure it passes on.
m8a_init_body(m) ==
    set_fuse_bytes([m8a_layout(m) EXCEPT !.lockbits = 63], 217, 225)

\* flash_size = (uint16_t) ((mcu->flashend - mcu->flashstart) + 1) / 2:
\* the cast binds tighter than the division.
flash_size(m) == ((((m.flashend - m.flashstart) + 1) % 65536) \div 2) % 65536

\* A descriptor as its owner hands it over: the boot_loader object is
\* allocated, no program memory is bound, the other fields hold whatever
\* the owner left there.
Descriptor(fe, junk) ==
    [name |-> "", hdr |-> FALSE, flashstart |-> 0, flashend |-> fe,
     lockbits |-> IF junk THEN 21 ELSE 0,
     fuse |-> IF junk THEN <<194, 255>> ELSE <<0, 0>>,
     clk_source |-> IF junk THEN "AVR_EXT_CLK" ELSE "AVR_INT_CLK",
     freq |-> IF junk THEN U32(42) ELSE U32(0),
     boot_loader |-> IF junk THEN [start |-> 3968, end |-> 4095, size |-> 128]
                             ELSE [start |-> 0, end |-> 0, size |-> 0],
     prog_mem |-> "NULL"]

\* Flash end addresses of the descriptors handed over.
InitFlashEnds == {0, 65535}

\* The buffers a caller supplies, named by their content.
Buffers == {"erased", "ramp"}
BufferContent(b) ==
    [x \in MemRange |-> IF b = "erased" THEN 255 ELSE 16 + x]
NoMem == [x \in MemRange |-> 0]
\* The window of a buffer of the given number of words.
BufferWindow(b, words) ==
    [x \in MemRange |-> IF x < 2 * words THEN BufferContent(b)[x] ELSE 0]

\* Word counts a caller passes to m8a_set_progmem.
BindSizes == {0, 1, 4096, 32768}

----------------------------------------------------------------------------
(* Intel HEX records and streams *)

IHEX_TYPE_00 == 0
IHEX_TYPE_01 == 1

RECURSIVE SumSeq(_)
SumSeq(s) == IF s = <<>> THEN 0 ELSE Head(s) + SumSeq(Tail(s))

\* Checksum_IHexRecord: two's complement of the sum of the count, the two
\* address bytes, the type and the data bytes, modulo 256.
Checksum_IHexRecord(r) ==
    (256 - ((Len(r.data) + (r.address \div 256) + (r.address % 256)
             + r.type + SumSeq(r.data)) % 256)) % 256

Payloads == {[i \in 1..n |-> v] : n \in DataLens, v \in DataVals}

\* A record as the reader returns it; off = 0 stores the right checksum.
Rec(t, a, d, off) ==
    [type |-> t, address |-> a, data |-> d,
     checksum |-> (Checksum_IHexRecord([type |-> t, address |-> a, data |-> d])
                   + off) % 256]

\* Data records: every address and payload with the right checksum, and
\* every payload at address 0 with a wrong one.
DataRecs ==
    {Rec(IHEX_TYPE_00, a, d, 0) : a \in RecAddrs, d \in Payloads}
    \cup {Rec(IHEX_TYPE_00, 0, d, 1) : d \in Payloads}
EofRec == Rec(IHEX_TYPE_01, 0, <<>>, 0)
OtherRec == Rec(4, 0, <<>>, 0)

\* A line of the stream: what Read_IHexRecord returns for it, and the
\* record it fills in. The reader is not told apart further: every record
\* may come back with IHEX_OK, also one whose stored checksum is wrong.
Lines ==
    {[status |-> "IHEX_OK", rec |-> r] : r \in DataRecs \cup {EofRec, OtherRec}}
    \cup {[status |-> "IHEX_ERROR", rec |-> EofRec]}

NullStream == [usable |-> FALSE, lines |-> <<>>]
Streams ==
    {[usable |-> TRUE, lines |-> s] :
        s \in UNION {[1..n -> Lines] : n \in 0..MaxRecs}}

\* Read_IHexRecord at line i: IHEX_OK, or an error (also at end of file).
Read_IHexRecord(lines, i) ==
    IF i <= Len(lines) THEN lines[i].status ELSE "IHEX_ERROR_EOF"

----------------------------------------------------------------------------
(* m8a_load_progmem *)

ByteOffsetUnscaled(address) == address

\* mcu->prog_mem + (rec.address / 2): prog_mem points to 16-bit words.
ByteOffset(address) == 2 * (address \div 2)

\* memcpy(dst = buffer + off, data, n)
MemWrite(m, off, data) ==
    [x \in DOMAIN m |->
        IF off <= x /\ x < off + Len(data) THEN data[x - off + 1] ELSE m[x]]

\* memcpy(mem_rec.data, buffer + off, n)
MemRead(m, off, n) == [i \in 1..n |-> m[off + i - 1]]

RECURSIVE IngestSkipBad(_, _, _)
IngestSkipBad(m, lines, i) ==
    IF i > Len(lines) THEN m
    ELSE IngestSkipBad(IF lines[i].status = "IHEX_OK"
                          /\ lines[i].rec.type = IHEX_TYPE_00
                       THEN MemWrite(m, ByteOffset(lines[i].rec.address),
                                     lines[i].rec.data)
                       ELSE m,
                       lines, i + 1)

\* The first while loop, from line i on: the memory it leaves.
RECURSIVE IngestPass(_, _, _)
IngestPass(m, lines, i) ==
    IF Read_IHexRecord(lines, i) # "IHEX_OK" THEN m
    ELSE IngestPass(IF lines[i].rec.type = IHEX_TYPE_00
                    THEN MemWrite(m, ByteOffset(lines[i].rec.address),
                                  lines[i].rec.data)
                    ELSE m,
                    lines, i + 1)

MemRecChecksumNoAddress(m, rec) ==
    Checksum_IHexRecord([type |-> rec.type, address |-> 0,
                         data |-> MemRead(m, ByteOffset(rec.address),
                                          Len(rec.data))])

\* mem_rec of the second loop, with the checksum computed for it.
MemRecChecksum(m, rec) ==
    Checksum_IHexRecord([type |-> rec.type, address |-> rec.address,
                         data |-> MemRead(m, ByteOffset(rec.address),
                                          Len(rec.data))])

RECURSIVE VerifyKeepGoing(_, _, _, _)
VerifyKeepGoing(m, lines, i, acc) ==
    IF Read_IHexRecord(lines, i) # "IHEX_OK"
    THEN [ret |-> 0, fail |-> 0, accepted |-> acc]
    ELSE VerifyKeepGoing(m, lines, i + 1,
            IF lines[i].rec.type = IHEX_TYPE_00
               /\ MemRecChecksum(m, lines[i].rec) = lines[i].rec.checksum
            THEN acc \cup {i} ELSE acc)

\* The second while loop, from line i on: the value returned, the line
\* whose record failed (0: none) and the Data lines accepted.
RECURSIVE VerifyPass(_, _, _, _)
VerifyPass(m, lines, i, acc) ==
    IF Read_IHexRecord(lines, i) # "IHEX_OK"
    THEN [ret |-> 0, fail |-> 0, accepted |-> acc]
    ELSE IF lines[i].rec.type # IHEX_TYPE_00
         THEN VerifyPass(m, lines, i + 1, acc)
         ELSE IF MemRecChecksum(m, lines[i].rec) # lines[i].rec.checksum
              THEN [ret |-> -1, fail |-> i, accepted |-> acc]
              ELSE VerifyPass(m, lines, i + 1, acc \cup {i})

\* Number of records the reader returns before it first reports no record.
RECURSIVE RecordsRead(_, _)
RecordsRead(lines, i) ==
    IF Read_IHexRecord(lines, i) # "IHEX_OK" THEN i - 1
    ELSE RecordsRead(lines, i + 1)

\* A memcpy of the ingest pass leaves the buffer behind prog_mem, or
\* prog_mem is NULL: undefined behaviour.
LoadUB(m, words, lines) ==
    \E i \in 1..RecordsRead(lines, 1) :
        /\ lines[i].rec.type = IHEX_TYPE_00
        /\ \/ m.prog_mem = "NULL"
           \/ ByteOffset(lines[i].rec.address) + Len(lines[i].rec.data)
                > 2 * words

\* One byte of program memory changed by something other than the loader
\* between the two passes; off = -1: nothing changes.
NoCorrupt == [off |-> -1, delta |-> 0]
CorruptDeltas == {1, 254}
Corruptions ==
    {NoCorrupt} \cup {[off |-> o, delta |-> d] : o \in MemRange, d \in CorruptDeltas}
Corrupt(m, c) ==
    IF c.off < 0 THEN m
    ELSE [m EXCEPT ![c.off] = (m[c.off] + c.delta) % 256]

----------------------------------------------------------------------------
(* The calls *)

DefaultArg ==
    [present |-> TRUE, size |-> 0, buf |-> "NULL", fp |-> NullStream,
     corrupt |-> NoCorrupt, high |-> 0, low |-> 0]
NoOut == [ingested |-> NoMem, fail |-> 0, accepted |-> {}, read |-> 0]
Snapshot == [mcu |-> mcu, mem |-> mem, progWords |-> progWords]

\* What every call does to the bookkeeping variables.
Called(name, a) ==
    /\ ~ub
    /\ calls < MaxCalls
    /\ calls' = calls + 1
    /\ op' = name
    /\ arg' = a
    /\ pre' = Snapshot

\* int m8a_init(struct avr *mcu); present = FALSE is the NULL descriptor.
m8a_init(present) ==
    /\ Called("m8a_init", [DefaultArg EXCEPT !.present = present])
    /\ IF ~present
       THEN /\ ret' = -1
            /\ err' = "NullMCU"
            /\ mcu' = mcu
       ELSE LET r == m8a_init_body(mcu)
            IN  /\ mcu' = r.mcu
                /\ ret' = r.ret
                /\ err' = IF r.ret # 0 THEN "InvalidFuseConfig" ELSE "None"
    /\ out' = NoOut
    /\ ub' = FALSE
    /\ UNCHANGED <<mem, progWords>>

\* int m8a_set_progmem(struct avr *mcu, uint16_t *mem, uint32_t size)
m8a_set_progmem(buf, size) ==
    /\ Called("m8a_set_progmem", [DefaultArg EXCEPT !.buf = buf, !.size = size])
    /\ IF size # flash_size(mcu)
       THEN /\ ret' = -1
            /\ err' = "SizeMismatch"
            /\ UNCHANGED <<mcu, mem, progWords>>
       ELSE /\ ret' = 0
            /\ err' = "None"
            /\ mcu' = [mcu EXCEPT !.prog_mem = buf]
            /\ mem' = BufferWindow(buf, size)
            /\ progWords' = size
    /\ out' = NoOut
    /\ ub' = FALSE

\* The test of fp that opens m8a_load_progmem.
NoStreamNever(fp) == FALSE
NoStream(fp) == ~fp.usable

\* int m8a_load_progmem(struct avr *mcu, FILE *fp), with the memory change
\* c between its two passes.
m8a_load_progmem(fp, c) ==
    /\ Called("m8a_load_progmem", [DefaultArg EXCEPT !.fp = fp, !.corrupt = c])
    /\ mcu' = mcu
    /\ progWords' = progWords
    /\ IF NoStream(fp)
       THEN /\ ret' = -1
            /\ err' = "NoStream"
            /\ mem' = mem
            /\ out' = NoOut
            /\ ub' = FALSE
       ELSE IF LoadUB(mcu, progWords, fp.lines)
       THEN /\ ub' = TRUE
            /\ \E r \in {0, -1} :
                 /\ ret' = r
                 /\ err' = IF r = 0 THEN "None" ELSE "ChecksumMismatch"
            /\ mem' \in {mem, NoMem}
            /\ out' = NoOut
       ELSE LET ing == IngestPass(mem, fp.lines, 1)
                cur == Corrupt(ing, c)
                v   == VerifyPass(cur, fp.lines, 1, {})
            IN  /\ mem' = cur
                /\ ret' = v.ret
                /\ err' = IF v.ret = 0 THEN "None" ELSE "ChecksumMismatch"
                /\ out' = [ingested |-> ing, fail |-> v.fail,
                           accepted |-> v.accepted,
                           read |-> RecordsRead(fp.lines, 1)]
                /\ ub' = FALSE

\* int m8a_set_datamem(struct avr *mcu, uint8_t *mem, uint32_t size)
m8a_set_datamem ==
    /\ Called("m8a_set_datamem", DefaultArg)
    /\ ret' = -1
    /\ err' = "NotImplemented"
    /\ out' = NoOut
    /\ ub' = FALSE
    /\ UNCHANGED <<mcu, mem, progWords>>

\* set_fuse_bytes(mcu, high, low) on the bytes drawn in arg.
set_fuse_bytes_call ==
    /\ op = "none"
    /\ Called("set_fuse_bytes", arg)
    /\ LET r == set_fuse_bytes(mcu, arg.high, arg.low)
       IN  /\ mcu' = r.mcu
           /\ ret' = r.ret
           /\ err' = IF r.ret # 0 THEN "InvalidFuseConfig" ELSE "None"
    /\ out' = NoOut
    /\ ub' = FALSE
    /\ UNCHANGED <<mem, progWords>>

----------------------------------------------------------------------------
(* Spec: the public calls, in any order, on one descriptor *)

Rest ==
    /\ op = "none"
    /\ ret = 0
    /\ err = "None"
    /\ out = NoOut
    /\ ub = FALSE
    /\ calls = 0

Init ==
    /\ mcu \in {Descriptor(fe, j) : fe \in InitFlashEnds, j \in BOOLEAN}
    /\ mem = NoMem
    /\ progWords = 0
    /\ arg = DefaultArg
    /\ pre = Snapshot
    /\ Rest

L(a, d) == [status |-> "IHEX_OK", rec |-> Rec(IHEX_TYPE_00, a, d, 0)]

\* The streams the call sequences of Spec load.
ApiStreams ==
    {NullStream}
    \cup {[usable |-> TRUE, lines |-> s] :
            s \in {<<>>,
                   <<L(0, <<1, 1>>)>>,
                   <<L(0, <<1>>), L(1, <<255, 255>>)>>,
                   <<L(2, <<255>>), [status |-> "IHEX_ERROR", rec |-> EofRec]>>}}

Next ==
    \/ \E present \in BOOLEAN : m8a_init(present)
    \/ \E buf \in Buffers, size \in BindSizes : m8a_set_progmem(buf, size)
    \/ \E fp \in ApiStreams : m8a_load_progmem(fp, NoCorrupt)
    \/ m8a_set_datamem

Spec == Init /\ [][Next]_vars

----------------------------------------------------------------------------
(* SpecFuse: set_fuse_bytes on every pair of fuse bytes *)

InitFuse ==
    /\ mcu = Descriptor(0, TRUE)
    /\ mem = NoMem
    /\ progWords = 0
    /\ arg \in {[DefaultArg EXCEPT !.high = h, !.low = l] :
                    h \in 0..255, l \in 0..255}
    /\ pre = Snapshot
    /\ Rest

NextFuse == set_fuse_bytes_call

SpecFuse == InitFuse /\ [][NextFuse]_vars

----------------------------------------------------------------------------
(* SpecLoad: one m8a_load_progmem call *)

\* The descriptor after m8a_init.
Initialized == m8a_init_body(Descriptor(0, FALSE)).mcu

InitLoad ==
    /\ \/ /\ mcu = [Initialized EXCEPT !.prog_mem = "ramp"]
          /\ mem = BufferWindow("ramp", flash_size(Initialized))
          /\ progWords = flash_size(Initialized)
       \/ /\ mcu = [Descriptor(0, FALSE) EXCEPT !.prog_mem = "erased"]
          /\ mem = BufferWindow("erased", flash_size(Descriptor(0, FALSE)))
          /\ progWords = flash_size(Descriptor(0, FALSE))
       \/ /\ mcu = Initialized
          /\ mem = NoMem
          /\ progWords = 0
    /\ arg = DefaultArg
    /\ pre = Snapshot
    /\ Rest

NextLoad ==
    /\ calls = 0
    /\ \E fp \in Streams \cup {NullStream} :
         \E c \in {x \in Corruptions : x.off < 2 * progWords} :
            m8a_load_progmem(fp, c)

SpecLoad == InitLoad /\ [][NextLoad]_vars

----------------------------------------------------------------------------
(* Vocabulary of the properties, stated apart from the operators above *)

\* The last call was a load that reached its two passes and stayed inside
\* the bound buffer.
LoadRan == op = "m8a_load_progmem" /\ arg.fp.usable /\ ~ub
TheLines == arg.fp.lines

IsData(ln) == ln.rec.type = 0
\* Bytes of program memory a Data record occupies, payload byte i at
\* offset 2 * (A div 2) + i, and the value the record holds for byte x.
RangeOf(ln) ==
    {2 * (ln.rec.address \div 2) + i : i \in 0 .. (Len(ln.rec.data) - 1)}
ValueAt(ln, x) == ln.rec.data[x - 2 * (ln.rec.address \div 2) + 1]

\* Lines before the first one the reader does not report as a record.
FirstBad(lines) ==
    CHOOSE i \in 1 .. (Len(lines) + 1) :
        /\ i = Len(lines) + 1 \/ lines[i].status # "IHEX_OK"
        /\ \A j \in 1 .. (i - 1) : lines[j].status = "IHEX_OK"
DataRead(lines) == {i \in 1 .. (FirstBad(lines) - 1) : IsData(lines[i])}
Covering(lines, x) == {i \in DataRead(lines) : x \in RangeOf(lines[i])}

\* Every line is a record and every Data record stores its own checksum.
WellFormed(lines) ==
    /\ FirstBad(lines) = Len(lines) + 1
    /\ \A i \in DataRead(lines) :
          lines[i].rec.checksum = Checksum_IHexRecord(lines[i].rec)

\* Data records that cover the same byte hold the same value for it.
Agree(lines) ==
    \A i \in DataRead(lines), j \in DataRead(lines) :
        \A x \in RangeOf(lines[i]) \cap RangeOf(lines[j]) :
            ValueAt(lines[i], x) = ValueAt(lines[j], x)

\* The record a Data line would be if rebuilt from memory m.
Matches(m, ln) ==
    Checksum_IHexRecord(
        [type |-> ln.rec.type, address |-> ln.rec.address,
         data |-> [k \in 1 .. Len(ln.rec.data) |->
                      m[2 * (ln.rec.address \div 2) + k - 1]]])
      = ln.rec.checksum

----------------------------------------------------------------------------
(* C1 *)

\* C1 as stated: a well-formed image of correctly checksummed Data records,
\* loaded into bound memory that nothing changes between the passes, has
\* every Data record accepted and the call returns 0.
C1_RoundTrip_AsStated ==
    (LoadRan /\ arg.corrupt = NoCorrupt /\ WellFormed(TheLines))
        => (ret = 0 /\ out.accepted = DataRead(TheLines))

\* C1 amended: the same, for images whose Data records agree on every byte
\* that more than one of them covers (disjoint records in particular).
C1_RoundTrip ==
    (LoadRan /\ arg.corrupt = NoCorrupt /\ WellFormed(TheLines)
        /\ Agree(TheLines))
        => (ret = 0 /\ out.accepted = DataRead(TheLines))

\* Two correctly checksummed Data records, at different addresses, sharing
\* a byte they agree on, both accepted.
C1_Witness ==
    /\ LoadRan /\ arg.corrupt = NoCorrupt
    /\ WellFormed(TheLines) /\ Agree(TheLines)
    /\ DataRead(TheLines) = {1, 2}
    /\ TheLines[1].rec.address # TheLines[2].rec.address
    /\ RangeOf(TheLines[1]) \cap RangeOf(TheLines[2]) # {}
    /\ ret = 0 /\ out.accepted = {1, 2}

----------------------------------------------------------------------------
(* C2 *)

CorruptedByte == arg.corrupt.off
FirstCovering == CHOOSE i \in Covering(TheLines, CorruptedByte) :
                    \A j \in Covering(TheLines, CorruptedByte) : i <= j
C2_Outcome ==
    /\ ret = -1 /\ err = "ChecksumMismatch"
    /\ out.fail = FirstCovering
    /\ out.accepted = {i \in DataRead(TheLines) : i < FirstCovering}

\* C2 as stated: one byte inside a Data record's range changed between the
\* passes makes the call fail with ChecksumMismatch at the first Data record
\* covering the byte, the Data records before it accepted, none after it
\* examined.
C2_Corruption_AsStated ==
    (LoadRan /\ WellFormed(TheLines)
        /\ Covering(TheLines, CorruptedByte) # {})
        => C2_Outcome

\* C2 amended: the same, for images whose Data records agree on every byte
\* that more than one of them covers.
C2_Corruption ==
    (LoadRan /\ WellFormed(TheLines) /\ Agree(TheLines)
        /\ Covering(TheLines, CorruptedByte) # {})
        => C2_Outcome

\* The changed byte lies in the second Data record only; the first was
\* accepted and the call failed at the second.
C2_Witness ==
    /\ LoadRan /\ WellFormed(TheLines) /\ Agree(TheLines)
    /\ DataRead(TheLines) = {1, 2}
    /\ Covering(TheLines, CorruptedByte) = {2}
    /\ Len(TheLines[1].rec.data) > 0
    /\ ret = -1 /\ out.fail = 2 /\ out.accepted = {1}

----------------------------------------------------------------------------
(* C3 *)

TrueCapacity(m) == ((m.flashend - m.flashstart) + 1) \div 2

\* C3 as stated: for a layout with flashend >= flashstart, m8a_set_progmem
\* fails with SizeMismatch iff size differs from (flashend - flashstart + 1)/2
\* computed without truncation; on success prog_mem is the buffer supplied,
\* on failure prog_mem is what it was.
C3_BindIff ==
    (op = "m8a_set_progmem" /\ pre.mcu.flashend >= pre.mcu.flashstart)
        => /\ (ret = -1 /\ err = "SizeMismatch")
                <=> (arg.size # TrueCapacity(pre.mcu))
           /\ ret = 0 => mcu.prog_mem = arg.buf
           /\ ret # 0 => mcu.prog_mem = pre.mcu.prog_mem

----------------------------------------------------------------------------
(* C4 *)

\* C4 as stated: in every reachable state flashend >= flashstart, and a
\* bound program-memory buffer has (flashend - flashstart + 1)/2 words.
C4_DescriptorInvariant ==
    ~ub => /\ mcu.flashend >= mcu.flashstart
           /\ mcu.prog_mem # "NULL" => progWords = TrueCapacity(mcu)

----------------------------------------------------------------------------
(* C5 *)

\* C5: m8a_load_progmem on an unusable stream returns -1 (NoStream) before
\* any record is read and leaves program memory and the descriptor as they
\* were.
C5_NoStream ==
    (op = "m8a_load_progmem" /\ ~arg.fp.usable)
        => /\ ret = -1 /\ err = "NoStream"
           /\ ~ub
           /\ out.read = 0 /\ out.accepted = {} /\ out.fail = 0
           /\ mcu = pre.mcu /\ mem = pre.mem /\ progWords = pre.progWords

\* The call came after a load that had filled the bound buffer.
C5_Witness ==
    /\ op = "m8a_load_progmem" /\ ~arg.fp.usable
    /\ mcu.prog_mem = "erased" /\ progWords = 4096
    /\ mem # BufferContent("erased")
    /\ ret = -1

----------------------------------------------------------------------------
(* C6 *)

\* C6: m8a_init on a present descriptor returns 0 from any prior state and
\* leaves lock bits 0x3F, fuse bytes high 0xD9 and low 0xE1, the internal
\* clock at 1000 and the boot loader at (0xC00, 0xFFF, 1024); on an absent
\* descriptor it fails with NullMCU.
C6_InitDefaults ==
    op = "m8a_init" =>
        IF arg.present
        THEN /\ ret = 0
             /\ mcu.lockbits = 63
             /\ mcu.fuse[2] = 217 /\ mcu.fuse[1] = 225
             /\ mcu.clk_source = "AVR_INT_CLK"
             /\ mcu.freq = <<0, 1000>>
             /\ mcu.boot_loader = [start |-> 3072, end |-> 4095, size |-> 1024]
        ELSE ret = -1 /\ err = "NullMCU"

\* m8a_init ran on a descriptor that held other lock bits, an external
\* clock and the smallest boot loader.
C6_Witness ==
    /\ op = "m8a_init" /\ arg.present
    /\ pre.mcu.lockbits = 21
    /\ pre.mcu.clk_source = "AVR_EXT_CLK"
    /\ pre.mcu.boot_loader.size = 128
    /\ ret = 0 /\ mcu.lockbits = 63

----------------------------------------------------------------------------
(* C7 *)

CKSEL == arg.low % 16
CKOPT == (arg.high \div 16) % 2

\* C7: CKSEL = 0 succeeds with the external clock and the unknown frequency
\* for both CKOPT values; CKSEL 1..4 with CKOPT = 1 succeeds with the
\* internal clock at 1000, 2000, 4000, 8000; CKSEL 5..15 behaves as CKSEL 1;
\* every CKSEL but 0 with CKOPT = 0 fails with InvalidFuseConfig.
C7_ClockDecoding ==
    op = "set_fuse_bytes" =>
        /\ CKSEL = 0 =>
              /\ ret = 0
              /\ mcu.clk_source = "AVR_EXT_CLK"
              /\ mcu.freq = <<65535, 65535>>
        /\ (CKSEL # 0 /\ CKOPT = 1) =>
              /\ ret = 0
              /\ mcu.clk_source = "AVR_INT_CLK"
              /\ mcu.freq = <<0, CASE CKSEL = 2 -> 2000
                                   [] CKSEL = 3 -> 4000
                                   [] CKSEL = 4 -> 8000
                                   [] OTHER -> 1000>>
        /\ (CKSEL # 0 /\ CKOPT = 0) =>
              /\ ret = -1 /\ err = "InvalidFuseConfig"

\* The 8 MHz selection, decoded from a descriptor on the external clock.
C7_Witness ==
    /\ op = "set_fuse_bytes"
    /\ CKSEL = 4 /\ CKOPT = 1
    /\ pre.mcu.clk_source = "AVR_EXT_CLK"
    /\ ret = 0 /\ mcu.freq = <<0, 8000>>

----------------------------------------------------------------------------
(* C8 *)

BOOTSZ == (arg.high \div 2) % 4

\* C8: after set_fuse_bytes the raw fuse bytes are the inputs and the boot
\* loader is the preset chosen by bits 2:1 of the high byte alone.
C8_BootRegion ==
    op = "set_fuse_bytes" =>
        /\ mcu.fuse[2] = arg.high /\ mcu.fuse[1] = arg.low
        /\ mcu.boot_loader =
              CASE BOOTSZ = 0 -> [start |-> 3072, end |-> 4095, size |-> 1024]
                [] BOOTSZ = 1 -> [start |-> 3584, end |-> 4095, size |-> 512]
                [] BOOTSZ = 2 -> [start |-> 3840, end |-> 4095, size |-> 256]
                [] BOOTSZ = 3 -> [start |-> 3968, end |-> 4095, size |-> 128]

\* Pattern 10 decoded in a call that failed on the clock fields, with the
\* low bits of the high byte set otherwise.
C8_Witness ==
    /\ op = "set_fuse_bytes"
    /\ BOOTSZ = 2 /\ arg.high % 2 = 1 /\ CKOPT = 0 /\ CKSEL = 3
    /\ ret = -1
    /\ mcu.boot_loader.start = 3840

----------------------------------------------------------------------------
(* C9 *)

LastCovering(lines, x) == CHOOSE i \in Covering(lines, x) :
                             \A j \in Covering(lines, x) : j <= i

\* C9: when the ingest pass ends, every byte covered by a Data record holds
\* payload byte i of the last such record in file order, at offset
\* 2 * (A div 2) + i; every other byte holds its value from before the call;
\* records of other types write nothing and fail nothing.
C9_Ingest ==
    LoadRan =>
        /\ \A x \in MemRange :
              out.ingested[x] =
                 IF Covering(TheLines, x) # {}
                 THEN ValueAt(TheLines[LastCovering(TheLines, x)], x)
                 ELSE pre.mem[x]
        /\ out.fail # 0 => IsData(TheLines[out.fail])

\* An odd-addressed record and a later record that overwrites its first
\* byte, with a byte of the buffer neither covers.
C9_Witness ==
    /\ LoadRan
    /\ Len(TheLines) = 2
    /\ DataRead(TheLines) = {1, 2}
    /\ TheLines[1].rec.address = 1 /\ TheLines[1].rec.data = <<1, 1>>
    /\ TheLines[2].rec.address = 0 /\ TheLines[2].rec.data = <<255>>
    /\ out.ingested[0] = 255 /\ out.ingested[1] = 1
    /\ out.ingested[3] = pre.mem[3] /\ pre.mem[3] = 19

----------------------------------------------------------------------------
(* C10 *)

\* C10: both passes stop at the first line the reader does not report as a
\* record and the ingest pass never fails: Data records after that line are
\* neither copied nor verified, the call returns 0 exactly when every Data
\* record before it verifies, and a load fails only with NoStream or
\* ChecksumMismatch.
C10_PassTermination ==
    /\ LoadRan =>
          /\ out.read = FirstBad(TheLines) - 1
          /\ \A x \in MemRange :
                Covering(TheLines, x) = {} => out.ingested[x] = pre.mem[x]
          /\ out.accepted \subseteq DataRead(TheLines)
          /\ out.fail # 0 => out.fail \in DataRead(TheLines)
          /\ ret = 0 <=> \A i \in DataRead(TheLines) : Matches(mem, TheLines[i])
          /\ ret = 0 => out.accepted = DataRead(TheLines)
          /\ ret # 0 => (ret = -1 /\ err = "ChecksumMismatch" /\ out.fail # 0)
    /\ (op = "m8a_load_progmem" /\ ~ub) =>
          err \in {"None", "NoStream", "ChecksumMismatch"}

\* A Data record behind a malformed line: not copied, not verified, and the
\* call returned 0.
C10_Witness ==
    /\ LoadRan
    /\ Len(TheLines) = 2
    /\ TheLines[1].status # "IHEX_OK"
    /\ IsData(TheLines[2]) /\ TheLines[2].rec.data = <<1, 1>>
    /\ TheLines[2].rec.checksum # Checksum_IHexRecord(TheLines[2].rec)
    /\ mcu.prog_mem = "ramp"
    /\ ret = 0 /\ mem = pre.mem /\ out.accepted = {}

====
